---- MODULE Spec2Model ----
(***************************************************************************)
(* The poll store of mattermost-poll (src/poll.py): the Polls, VoteOptions *)
(* and Votes tables of one SQLite database, the Poll objects that hold a   *)
(* connection each, and the statements every method executes, one action   *)
(* per statement.                                                          *)
(*                                                                         *)
(* Store semantics (sqlite3 module defaults): a SELECT outside a           *)
(* transaction reads the committed database; the first INSERT, UPDATE or   *)
(* DELETE of a connection opens a transaction and takes the database's     *)
(* single write lock, which it keeps until commit(); a statement that      *)
(* needs the lock while another connection holds it waits in the busy      *)
(* handler; uncommitted changes are seen by their own connection only.     *)
(*                                                                         *)
(* Spec, SeqSpec, DvSpec and CrSpec run on a store that does not fail and  *)
(* on which a wait for the lock always ends with the lock.  FailSpec and   *)
(* LiveSpec add the statements that raise sqlite3.Error, LiveSpec the      *)
(* timeout of the busy handler as well.                                    *)
(***************************************************************************)
EXTENDS Integers, Sequences, FiniteSets, Bags, TLC

\* Bounds of the model.
NumInst == 2          \* connections, each holding at most one Poll object
MaxCalls == 4         \* calls made in one behaviour

Insts == 1..NumInst
Voters == {"u1", "u2"}
\* The arguments of create: one option list; a max_votes that is clamped up,
\* the single-choice value and a multiple-choice value below the number of
\* options.
Options == <<"a", "b", "c">>
OptionLists == {Options}
MaxVotesArgs == {0, 1, 2}
\* The vote_id arguments: every valid index, -1 and the first index too large.
VoteIds == (-1)..Len(Options)
PollIds == 1..NumInst
\* The vote_id arguments when the waits for the write lock are examined: two
\* valid indices.
LiveVoteIds == {0, 1}
\* The arguments of create when its stored values are examined: the empty
\* list, a single option and the three options; a max_votes below 0, 0, and
\* values up to one above the longest list.
CrOptionLists == {<<>>, <<"a">>, Options}
CrMaxVotesArgs == (-1)..(Len(Options) + 1)

VARIABLES
    db,       \* the committed database: [Polls, VoteOptions, Votes]
    txn,      \* the database as the connection holding the write lock sees it
    writer,   \* the connection holding the write lock, 0 when it is free
    poll,     \* poll[c]: the Poll object of connection c (id 0: none yet)
    call,     \* call[c]: the method connection c is running, and its locals
    ret,      \* how the call that ended last ended: "ok", the name of the
              \* exception raised, "finished" for the return of line 188
    ncalls,   \* the number of calls made so far
    streak    \* history: the run of consecutive votes of one voter on one
              \* option that the sequential specification follows

vars == <<db, txn, writer, poll, call, ret, ncalls, streak>>

----------------------------------------------------------------------------
\* Tables.  Polls is the sequence of poll rows, poll_id being the rowid;
\* VoteOptions is a set of rows <<poll_id, number, name>>; Votes is a bag of
\* rows <<poll_id, voter, vote>>.

NoPoll == [id |-> 0, vote_options |-> <<>>, max_votes |-> 0]
NoStreak == [id |-> 0, user_id |-> "", vote_id |-> 0, k |-> 0,
             others |-> EmptyBag, errors |-> FALSE]
\* A connection that runs no method.
Idle == [pc |-> "idle", id |-> 0, user_id |-> "", vote_id |-> 0,
         votes |-> EmptyBag, vote_options |-> <<>>]

\* SELECT ... FROM Votes WHERE ...: S is the set of rows the condition selects
SelectVotes(V, S) == [r \in DOMAIN V \cap S |-> V[r]]
\* DELETE FROM Votes WHERE ...: S is the set of rows the condition selects
DeleteVotes(V, S) == [r \in DOMAIN V \ S |-> V[r]]
\* Faulty variant: the INSERT of a Votes table declared without the single_vote
\* constraint.
InsertVoteUnconstrained(V, row) == V (+) SetToBag({row})

\* INSERT INTO Votes under CONSTRAINT single_vote UNIQUE (poll_id, voter,
\* vote) ON CONFLICT REPLACE: the rows with the same triple are deleted
\* before the new row is added.
InsertVote(V, row) == DeleteVotes(V, {row}) (+) SetToBag({row})

\* Faulty variant: a store whose readers see the uncommitted changes of the
\* writing connection.
ViewUncommitted(c) == IF writer # 0 THEN txn ELSE db

\* The database a statement of connection c reads and writes.
View(c) == IF writer = c THEN txn ELSE db

\* Poll.num_votes
num_votes(D, id) ==
    BagCardinality(SelectVotes(D.Votes,
        {x \in DOMAIN D.Votes : x[1] = id}))
\* Poll.num_voters
num_voters(D, id) ==
    Cardinality({x[2] : x \in DOMAIN SelectVotes(D.Votes,
        {x \in DOMAIN D.Votes : x[1] = id})})
\* Poll.count_votes
count_votes(D, id, vote_id) ==
    BagCardinality(SelectVotes(D.Votes,
        {x \in DOMAIN D.Votes : x[1] = id /\ x[3] = vote_id}))
\* Poll.voters
voters(D, id, vote_id) ==
    LET S == SelectVotes(D.Votes,
        {x \in DOMAIN D.Votes : x[1] = id /\ x[3] = vote_id})
    IN  [u \in {x[2] : x \in DOMAIN S} |-> S[<<id, u, vote_id>>]]
\* Poll.votes: the vote column of the voter's rows, with multiplicity
votes(D, id, user_id) ==
    LET S == SelectVotes(D.Votes,
        {x \in DOMAIN D.Votes : x[1] = id /\ x[2] = user_id})
    IN  [v \in {x[3] : x \in DOMAIN S} |-> S[<<id, user_id, v>>]]
\* Poll.is_finished
is_finished(D, id) == D.Polls[id].finished

\* SELECT name FROM VoteOptions WHERE poll_id=? ORDER BY number ASC
OptionNames(D, id) ==
    LET rows == {x \in D.VoteOptions : x[1] = id}
    IN  [n \in 1..Cardinality(rows) |->
            (CHOOSE x \in rows : x[2] = n - 1)[3]]

----------------------------------------------------------------------------
Init ==
    /\ db = [Polls |-> <<>>, VoteOptions |-> {}, Votes |-> EmptyBag]
    /\ txn = db
    /\ writer = 0
    /\ poll = [c \in Insts |-> NoPoll]
    /\ call = [c \in Insts |-> Idle]
    /\ ret = "none"
    /\ ncalls = 0
    /\ streak = NoStreak

\* Connections are numbered in the order they are opened: c can be opened
\* (by create or load) when it holds no Poll and every connection before it
\* holds one or is constructing one.
CanOpen(c) ==
    /\ poll[c].id = 0 /\ call[c].pc = "idle"
    /\ \A d \in 1..(c - 1) : poll[d].id # 0 \/ call[d].pc # "idle"
\* The connection has a constructed Poll and runs no method.
Ready(c) == poll[c].id # 0 /\ call[c].pc = "idle"
\* The connection can execute a writing statement.
CanWrite(c) == writer \in {0, c}
\* The database image a writing statement of c starts from.
WriteBase(c) == IF writer = c THEN txn ELSE db

\* connection.commit()
Commit(c) ==
    /\ db' = (IF writer = c THEN txn ELSE db)
    /\ txn' = db'
    /\ writer' = (IF writer = c THEN 0 ELSE writer)

----------------------------------------------------------------------------
\* Poll.create, lines 104-120: the default options, the clamp, the INSERT
\* of the poll row and of one option row per option.
\* Faulty variant: the clamp without its lower bound.
ClampMaxVotesNoFloor(max_votes, vote_options) ==
    IF max_votes < Len(vote_options) THEN max_votes ELSE Len(vote_options)

\* line 107: max(1, min(max_votes, len(vote_options)))
ClampMaxVotes(max_votes, vote_options) ==
    LET n == Len(vote_options)
        lo == IF max_votes < n THEN max_votes ELSE n
    IN  IF lo > 1 THEN lo ELSE 1

DefaultOptions(vote_options) ==
    IF vote_options = <<>> THEN <<"Yes", "No">> ELSE vote_options

CreateInsert(c, vote_options, max_votes) ==
    /\ CanOpen(c)
    /\ ncalls < MaxCalls /\ ncalls' = ncalls + 1
    /\ CanWrite(c)
    /\ LET opts == DefaultOptions(vote_options)
           mv == ClampMaxVotes(max_votes, opts)
           base == WriteBase(c)
           id == Len(base.Polls) + 1
       IN  /\ txn' = [base EXCEPT
                  !.Polls = Append(@, [finished |-> FALSE, max_votes |-> mv]),
                  !.VoteOptions = @ \cup
                      {<<id, n - 1, opts[n]>> : n \in 1..Len(opts)}]
           /\ call' = [call EXCEPT ![c] =
                  [Idle EXCEPT !.pc = "create_commit", !.id = id]]
    /\ writer' = c
    /\ UNCHANGED <<db, poll, ret>>

\* Poll.create statement by statement.  Lines 104-115: the default options,
\* the clamp and the INSERT of the poll row; the options stay in the local
\* vote_options.
CreatePoll(c, vote_options, max_votes) ==
    /\ CanOpen(c)
    /\ ncalls < MaxCalls /\ ncalls' = ncalls + 1
    /\ CanWrite(c)
    /\ LET opts == DefaultOptions(vote_options)
           mv == ClampMaxVotes(max_votes, opts)
           base == WriteBase(c)
       IN  /\ txn' = [base EXCEPT
                  !.Polls = Append(@, [finished |-> FALSE, max_votes |-> mv])]
           /\ call' = [call EXCEPT ![c] =
                  [Idle EXCEPT !.pc = "create_options",
                               !.id = Len(base.Polls) + 1,
                               !.vote_options = opts]]
    /\ writer' = c
    /\ UNCHANGED <<db, poll, ret>>

\* Faulty variant: the INSERT of an option row on a connection that commits
\* every statement.
CreateOptionAutocommit(c) ==
    /\ UNCHANGED ncalls
    /\ call[c].pc = "create_options"
    /\ LET number == Cardinality({x \in txn.VoteOptions : x[1] = call[c].id})
       IN  /\ txn' = [txn EXCEPT !.VoteOptions = @ \cup
                  {<<call[c].id, number, call[c].vote_options[number + 1]>>}]
           /\ call' = [call EXCEPT ![c].pc =
                  IF number + 1 = Len(call[c].vote_options)
                  THEN "create_commit" ELSE "create_options"]
    /\ db' = txn'
    /\ UNCHANGED <<writer, poll, ret>>

\* lines 116-120: one iteration of the loop, the INSERT of the next option
\* row; the loop ends after the last option
CreateOption(c) ==
    /\ UNCHANGED ncalls
    /\ call[c].pc = "create_options"
    /\ LET number == Cardinality({x \in txn.VoteOptions : x[1] = call[c].id})
       IN  /\ txn' = [txn EXCEPT !.VoteOptions = @ \cup
                  {<<call[c].id, number, call[c].vote_options[number + 1]>>}]
           /\ call' = [call EXCEPT ![c].pc =
                  IF number + 1 = Len(call[c].vote_options)
                  THEN "create_commit" ELSE "create_options"]
    /\ UNCHANGED <<db, writer, poll, ret>>

\* Poll.create, lines 121-122: commit, then cls(con, id)
CreateCommit(c) ==
    /\ UNCHANGED ncalls
    /\ call[c].pc = "create_commit"
    /\ Commit(c)
    /\ call' = [call EXCEPT ![c].pc = "init_options"]
    /\ UNCHANGED <<poll, ret>>

\* Poll.__init__, lines 45-56: the option names are read, InvalidPollError
\* is raised if there are none
ReadOptions(c, id) ==
    LET names == OptionNames(View(c), id)
    IN  IF names = <<>>
        THEN /\ call' = [call EXCEPT ![c] = Idle]
             /\ poll' = [poll EXCEPT ![c] = NoPoll]
             /\ ret' = "InvalidPollError"
        ELSE /\ call' = [call EXCEPT ![c] =
                    [Idle EXCEPT !.pc = "init_row", !.id = id]]
             /\ poll' = [poll EXCEPT ![c] =
                    [id |-> id, vote_options |-> names, max_votes |-> 0]]
             /\ UNCHANGED ret

\* Poll.load: a new connection, then cls(con, id) up to its first SELECT
Load(c, id) ==
    /\ CanOpen(c)
    /\ ncalls < MaxCalls /\ ncalls' = ncalls + 1
    /\ ReadOptions(c, id)
    /\ UNCHANGED <<db, txn, writer>>

\* Poll.create, line 122: cls(con, id) up to its first SELECT
InitOptions(c) ==
    /\ call[c].pc = "init_options"
    /\ ReadOptions(c, call[c].id)
    /\ UNCHANGED <<db, txn, writer, ncalls>>

\* Poll.__init__, lines 58-69: the poll row, InvalidPollError if absent
InitRow(c) ==
    /\ UNCHANGED ncalls
    /\ call[c].pc = "init_row"
    /\ LET D == View(c)
       IN  IF poll[c].id \in DOMAIN D.Polls
           THEN /\ poll' = [poll EXCEPT
                       ![c].max_votes = D.Polls[poll[c].id].max_votes]
                /\ ret' = "ok"
           ELSE /\ poll' = [poll EXCEPT ![c] = NoPoll]
                /\ ret' = "InvalidPollError"
    /\ call' = [call EXCEPT ![c] = Idle]
    /\ UNCHANGED <<db, txn, writer>>

----------------------------------------------------------------------------
\* Poll.vote

\* Faulty variant: the index check without its lower bound.
InvalidVoteIdNoLowerBound(vote_id, vote_options) ==
    vote_id >= Len(vote_options)

\* Faulty variant: the index check with > for >=.
InvalidVoteIdOffByOne(vote_id, vote_options) ==
    vote_id < 0 \/ vote_id > Len(vote_options)

\* Faulty variant: the index check without its upper bound.
InvalidVoteIdNoUpperBound(vote_id, vote_options) ==
    vote_id < 0

\* line 189: the index check
InvalidVoteId(vote_id, vote_options) ==
    vote_id < 0 \/ vote_id >= Len(vote_options)

\* Faulty variant: vote without the is_finished() check of lines 187-188.
VoteNeverFinished(c, user_id, vote_id) ==
    /\ Ready(c)
    /\ ncalls < MaxCalls /\ ncalls' = ncalls + 1
    /\ IF vote_id < 0 \/ vote_id >= Len(poll[c].vote_options)
       THEN UNCHANGED call /\ ret' = "IndexError"
       ELSE /\ call' = [call EXCEPT ![c] =
                   [Idle EXCEPT !.pc = "votes", !.id = poll[c].id,
                                !.user_id = user_id, !.vote_id = vote_id]]
            /\ UNCHANGED ret
    /\ UNCHANGED <<db, txn, writer, poll>>

\* lines 187-190: the call is made and is_finished() is read; a finished
\* poll returns (result "finished"), an invalid vote_id raises IndexError
VoteIsFinished(c, user_id, vote_id) ==
    /\ Ready(c)
    /\ ncalls < MaxCalls /\ ncalls' = ncalls + 1
    /\ IF is_finished(View(c), poll[c].id)
       THEN UNCHANGED call /\ ret' = "finished"
       ELSE IF InvalidVoteId(vote_id, poll[c].vote_options)
       THEN UNCHANGED call /\ ret' = "IndexError"
       ELSE /\ call' = [call EXCEPT ![c] =
                   [Idle EXCEPT !.pc = "votes", !.id = poll[c].id,
                                !.user_id = user_id, !.vote_id = vote_id]]
            /\ UNCHANGED ret
    /\ UNCHANGED <<db, txn, writer, poll>>

\* Faulty variant: the ceiling test with > for >=.
VoteBranchOffByOne(vs, vote_id, max_votes) ==
    IF BagIn(vote_id, vs) THEN "unvote"
    ELSE IF BagCardinality(vs) > max_votes
         THEN IF max_votes = 1 THEN "delete_all" ELSE "NoMoreVotesError"
         ELSE "insert"

\* Faulty variant: a single-choice poll treated like any other (no automatic
\* removal of the other vote).
VoteBranchNoReplace(vs, vote_id, max_votes) ==
    IF BagIn(vote_id, vs) THEN "unvote"
    ELSE IF BagCardinality(vs) >= max_votes
         THEN "NoMoreVotesError"
         ELSE "insert"

\* Faulty variant: no unvote branch.
VoteBranchNoUnvote(vs, vote_id, max_votes) ==
    IF BagCardinality(vs) >= max_votes
    THEN IF max_votes = 1 THEN "delete_all" ELSE "NoMoreVotesError"
    ELSE "insert"

\* Faulty variant: the ceiling test made before the test of line 195.
VoteBranchCeilingFirst(vs, vote_id, max_votes) ==
    IF BagCardinality(vs) >= max_votes
    THEN IF max_votes = 1 THEN "delete_all" ELSE "NoMoreVotesError"
    ELSE IF BagIn(vote_id, vs) THEN "unvote" ELSE "insert"

\* lines 195-213: the branch taken on the votes read
VoteBranch(vs, vote_id, max_votes) ==
    IF BagIn(vote_id, vs) THEN "unvote"
    ELSE IF BagCardinality(vs) >= max_votes
         THEN IF max_votes = 1 THEN "delete_all" ELSE "NoMoreVotesError"
         ELSE "insert"

\* line 194 and the tests of lines 195-209: votes(user_id) is read and the
\* branch is chosen; NoMoreVotesError is raised before any statement
VoteReadVotes(c) ==
    /\ UNCHANGED ncalls
    /\ call[c].pc = "votes"
    /\ LET vs == votes(View(c), poll[c].id, call[c].user_id)
           br == VoteBranch(vs, call[c].vote_id, poll[c].max_votes)
       IN  IF br = "NoMoreVotesError"
           THEN /\ call' = [call EXCEPT ![c] = Idle]
                /\ ret' = "NoMoreVotesError"
           ELSE /\ call' = [call EXCEPT ![c].pc = br, ![c].votes = vs]
                /\ UNCHANGED ret
    /\ UNCHANGED <<db, txn, writer, poll>>

\* lines 197-199: DELETE FROM Votes WHERE poll_id=? AND voter=? AND vote=?
VoteUnvote(c) ==
    /\ UNCHANGED ncalls
    /\ call[c].pc = "unvote"
    /\ CanWrite(c)
    /\ txn' = [WriteBase(c) EXCEPT !.Votes = DeleteVotes(@,
           {<<poll[c].id, call[c].user_id, call[c].vote_id>>})]
    /\ writer' = c
    /\ call' = [call EXCEPT ![c].pc = "commit"]
    /\ UNCHANGED <<db, poll, ret>>

\* Faulty variant: the DELETE of lines 205-207 without its voter condition.
VoteDeleteAllVoters(c) ==
    /\ UNCHANGED ncalls
    /\ call[c].pc = "delete_all"
    /\ CanWrite(c)
    /\ txn' = [WriteBase(c) EXCEPT !.Votes = DeleteVotes(@,
           {x \in DOMAIN @ : x[1] = poll[c].id})]
    /\ writer' = c
    /\ call' = [call EXCEPT ![c].pc = "insert"]
    /\ UNCHANGED <<db, poll, ret>>

\* lines 205-207: DELETE FROM Votes WHERE poll_id=? AND voter=?
VoteDeleteAll(c) ==
    /\ UNCHANGED ncalls
    /\ call[c].pc = "delete_all"
    /\ CanWrite(c)
    /\ txn' = [WriteBase(c) EXCEPT !.Votes = DeleteVotes(@,
           {x \in DOMAIN @ : x[1] = poll[c].id /\ x[2] = call[c].user_id})]
    /\ writer' = c
    /\ call' = [call EXCEPT ![c].pc = "insert"]
    /\ UNCHANGED <<db, poll, ret>>

\* lines 210-213: INSERT INTO Votes (poll_id, voter, vote)
VoteInsert(c) ==
    /\ UNCHANGED ncalls
    /\ call[c].pc = "insert"
    /\ CanWrite(c)
    /\ txn' = [WriteBase(c) EXCEPT !.Votes =
           InsertVote(@, <<poll[c].id, call[c].user_id, call[c].vote_id>>)]
    /\ writer' = c
    /\ call' = [call EXCEPT ![c].pc = "commit"]
    /\ UNCHANGED <<db, poll, ret>>

\* line 214: commit
VoteCommit(c) ==
    /\ UNCHANGED ncalls
    /\ call[c].pc = "commit"
    /\ Commit(c)
    /\ call' = [call EXCEPT ![c] = Idle]
    /\ ret' = "ok"
    /\ UNCHANGED poll

----------------------------------------------------------------------------
\* Poll.end

\* Faulty variant: the UPDATE of line 221 without its WHERE clause.
EndUpdateAllPolls(c) ==
    /\ ncalls < MaxCalls /\ ncalls' = ncalls + 1
    /\ Ready(c)
    /\ CanWrite(c)
    /\ txn' = [WriteBase(c) EXCEPT !.Polls =
           [p \in DOMAIN @ |-> [@[p] EXCEPT !.finished = TRUE]]]
    /\ writer' = c
    /\ call' = [call EXCEPT ![c] =
           [Idle EXCEPT !.pc = "end_commit", !.id = poll[c].id]]
    /\ UNCHANGED <<db, poll, ret>>

\* lines 220-222: UPDATE Polls SET finished=1 WHERE poll_id=?
EndUpdate(c) ==
    /\ ncalls < MaxCalls /\ ncalls' = ncalls + 1
    /\ Ready(c)
    /\ CanWrite(c)
    /\ txn' = [WriteBase(c) EXCEPT !.Polls =
           [p \in DOMAIN @ |->
               IF p = poll[c].id THEN [@[p] EXCEPT !.finished = TRUE]
               ELSE @[p]]]
    /\ writer' = c
    /\ call' = [call EXCEPT ![c] =
           [Idle EXCEPT !.pc = "end_commit", !.id = poll[c].id]]
    /\ UNCHANGED <<db, poll, ret>>

\* line 220: the call is made, the cursor is taken; the UPDATE is next
EndCall(c) ==
    /\ ncalls < MaxCalls /\ ncalls' = ncalls + 1
    /\ Ready(c)
    /\ call' = [call EXCEPT ![c] =
           [Idle EXCEPT !.pc = "end_update", !.id = poll[c].id]]
    /\ UNCHANGED <<db, txn, writer, poll, ret>>

\* lines 221-222: the UPDATE of a call made by EndCall, executed when the
\* write lock is free or the connection's own
EndExecute(c) ==
    /\ UNCHANGED ncalls
    /\ call[c].pc = "end_update"
    /\ CanWrite(c)
    /\ txn' = [WriteBase(c) EXCEPT !.Polls =
           [p \in DOMAIN @ |->
               IF p = poll[c].id THEN [@[p] EXCEPT !.finished = TRUE]
               ELSE @[p]]]
    /\ writer' = c
    /\ call' = [call EXCEPT ![c].pc = "end_commit"]
    /\ UNCHANGED <<db, poll, ret>>

\* line 223: commit
EndCommit(c) ==
    /\ UNCHANGED ncalls
    /\ call[c].pc = "end_commit"
    /\ Commit(c)
    /\ call' = [call EXCEPT ![c] = Idle]
    /\ ret' = "ok"
    /\ UNCHANGED poll

----------------------------------------------------------------------------
\* Store failures.  A statement or a commit that the store cannot complete
\* (an I/O error, a full disk, the busy handler giving up after the timeout
\* of sqlite3.connect) raises sqlite3.Error in the method that executes it.

\* Poll.create, lines 82-109: a schema statement or the INSERT of the poll
\* row raises before any row is written.  create has no handler: the error
\* leaves it as it is, and the connection, which nothing refers to, holds no
\* transaction.
CreateSchemaFails(c) ==
    /\ CanOpen(c)
    /\ ncalls < MaxCalls /\ ncalls' = ncalls + 1
    /\ ret' = "sqlite3.Error"
    /\ UNCHANGED <<db, txn, writer, poll, call>>

\* Poll.create, lines 116-121: the INSERT of an option row or the commit
\* raises.  The error leaves create as it is; the connection keeps its
\* transaction until it is closed.
CreateStatementFails(c) ==
    /\ UNCHANGED ncalls
    /\ call[c].pc \in {"create_options", "create_commit"}
    /\ call' = [call EXCEPT ![c].pc = "create_raised"]
    /\ ret' = "sqlite3.Error"
    /\ UNCHANGED <<db, txn, writer, poll>>

\* The connection of a create that raised is closed when the last reference
\* to it goes (line 80: con is a local): its transaction is rolled back.
CreateClose(c) ==
    /\ UNCHANGED ncalls
    /\ call[c].pc = "create_raised"
    /\ txn' = db
    /\ writer' = (IF writer = c THEN 0 ELSE writer)
    /\ call' = [call EXCEPT ![c] = Idle]
    /\ UNCHANGED <<db, poll, ret>>

\* Poll.__init__, lines 47-72: a SELECT raises sqlite3.Error, which the
\* handler of line 71 turns into InvalidPollError.
InitFails(c) ==
    /\ UNCHANGED ncalls
    /\ call[c].pc \in {"init_options", "init_row"}
    /\ call' = [call EXCEPT ![c] = Idle]
    /\ poll' = [poll EXCEPT ![c] = NoPoll]
    /\ ret' = "InvalidPollError"
    /\ UNCHANGED <<db, txn, writer>>

\* What a failed statement leaves of the transaction of connection c: the
\* store either undoes the statement alone, the transaction staying open,
\* or rolls the whole transaction back.
AfterFailure(c) ==
    \/ UNCHANGED <<txn, writer>>
    \/ /\ writer = c
       /\ txn' = db
       /\ writer' = 0

\* Faulty variant: a connection opened without a timeout waits for the write
\* lock for ever.
BusyWaitsForEver(c) == FALSE /\ UNCHANGED vars

\* lines 80 and 130, sqlite3.connect with its default timeout: a DELETE,
\* INSERT or UPDATE that waits for the write lock held by another connection
\* raises sqlite3.OperationalError when the timeout has passed.  The
\* statement has changed nothing.
BusyTimeout(c) ==
    /\ UNCHANGED ncalls
    /\ call[c].pc \in {"unvote", "delete_all", "insert", "end_update"}
    /\ ~CanWrite(c)
    /\ call' = [call EXCEPT ![c] = Idle]
    /\ ret' = "sqlite3.Error"
    /\ UNCHANGED <<db, txn, writer, poll>>

\* Poll.vote, lines 194-214: the SELECT, the DELETE, the INSERT or the
\* commit raises.  vote has no handler and does not roll back: the error
\* leaves it as it is.
VoteFails(c) ==
    /\ UNCHANGED ncalls
    /\ call[c].pc \in {"votes", "unvote", "delete_all", "insert", "commit"}
    /\ AfterFailure(c)
    /\ call' = [call EXCEPT ![c] = Idle]
    /\ ret' = "sqlite3.Error"
    /\ UNCHANGED <<db, poll>>

\* Poll.end, line 223: the commit raises.
EndFails(c) ==
    /\ UNCHANGED ncalls
    /\ call[c].pc = "end_commit"
    /\ AfterFailure(c)
    /\ call' = [call EXCEPT ![c] = Idle]
    /\ ret' = "sqlite3.Error"
    /\ UNCHANGED <<db, poll>>

----------------------------------------------------------------------------
\* Poll.vote, lines 194-214, run without interruption on the ledger V: the
\* ledger it leaves and how it ends.
VoteAlone(V, id, user_id, vote_id, max_votes) ==
    LET vs == votes([Votes |-> V], id, user_id)
        br == VoteBranch(vs, vote_id, max_votes)
        mine == {x \in DOMAIN V : x[1] = id /\ x[2] = user_id}
        row == <<id, user_id, vote_id>>
    IN  CASE br = "unvote" ->
               [Votes |-> DeleteVotes(V, {row}), result |-> "ok"]
          [] br = "delete_all" ->
               [Votes |-> InsertVote(DeleteVotes(V, mine), row),
                result |-> "ok"]
          [] br = "insert" ->
               [Votes |-> InsertVote(V, row), result |-> "ok"]
          [] OTHER -> [Votes |-> V, result |-> "NoMoreVotesError"]

----------------------------------------------------------------------------
\* The history variable streak.  A streak starts with a vote(user_id,
\* vote_id) call made on an unfinished poll for a valid option the voter
\* does not hold and has room to cast; it counts the consecutive calls of
\* that voter for that option and ends with the voter's first call for
\* another option.  V is the ledger the call started from.

StartsStreak(V, id, user_id, vote_id, c) ==
    LET vs == votes([Votes |-> V], id, user_id)
    IN  /\ ~db.Polls[id].finished
        /\ vote_id \in 0..(Len(poll[c].vote_options) - 1)
        /\ ~BagIn(vote_id, vs)
        /\ BagCardinality(vs) < poll[c].max_votes

Observe(c, user_id, vote_id, result) ==
    LET id == poll[c].id
        fresh == IF StartsStreak(db.Votes, id, user_id, vote_id, c)
                 THEN [id |-> id, user_id |-> user_id, vote_id |-> vote_id,
                       k |-> 1,
                       others |-> votes(db, id, user_id),
                       errors |-> result # "ok"]
                 ELSE NoStreak
    IN  IF streak.k = 0 THEN fresh
        ELSE IF <<streak.id, streak.user_id>> # <<id, user_id>> THEN streak
        ELSE IF streak.vote_id = vote_id
             THEN [streak EXCEPT !.k = @ + 1,
                                 !.errors = @ \/ result # "ok"]
             ELSE fresh

\* No call is running.
Quiet == \A c \in Insts : call[c].pc = "idle"

\* No other connection is running a vote of the same voter on the same poll.
OtherVoters(c, user_id) ==
    \A d \in Insts \ {c} :
        call[d].pc \in {"votes", "unvote", "delete_all", "insert", "commit"}
            => <<call[d].id, call[d].user_id>> # <<poll[c].id, user_id>>

----------------------------------------------------------------------------
\* Any number of callers, every statement of every call interleaved with the
\* statements of the other connections.
Next ==
    \/ \E c \in Insts, vo \in OptionLists, mv \in MaxVotesArgs :
           CreateInsert(c, vo, mv) /\ UNCHANGED streak
    \/ \E c \in Insts : CreateCommit(c) /\ UNCHANGED streak
    \/ \E c \in Insts, id \in PollIds : Load(c, id) /\ UNCHANGED streak
    \/ \E c \in Insts : InitOptions(c) /\ UNCHANGED streak
    \/ \E c \in Insts : InitRow(c) /\ UNCHANGED streak
    \/ \E c \in Insts, u \in Voters, v \in VoteIds :
           VoteIsFinished(c, u, v) /\ UNCHANGED streak
    \/ \E c \in Insts : VoteReadVotes(c) /\ UNCHANGED streak
    \/ \E c \in Insts : VoteUnvote(c) /\ UNCHANGED streak
    \/ \E c \in Insts : VoteDeleteAll(c) /\ UNCHANGED streak
    \/ \E c \in Insts : VoteInsert(c) /\ UNCHANGED streak
    \/ \E c \in Insts : VoteCommit(c) /\ UNCHANGED streak
    \/ \E c \in Insts : EndUpdate(c) /\ UNCHANGED streak
    \/ \E c \in Insts : EndCommit(c) /\ UNCHANGED streak

Spec == Init /\ [][Next]_vars

\* Non-overlapping calls: a call is made only when no call is running.
SeqNext ==
    \/ \E c \in Insts, vo \in OptionLists, mv \in MaxVotesArgs :
           Quiet /\ CreateInsert(c, vo, mv) /\ UNCHANGED streak
    \/ \E c \in Insts : CreateCommit(c) /\ UNCHANGED streak
    \/ \E c \in Insts, id \in PollIds :
           Quiet /\ Load(c, id) /\ UNCHANGED streak
    \/ \E c \in Insts : InitOptions(c) /\ UNCHANGED streak
    \/ \E c \in Insts : InitRow(c) /\ UNCHANGED streak
    \/ \E c \in Insts, u \in Voters, v \in VoteIds :
           /\ Quiet
           /\ VoteIsFinished(c, u, v)
           /\ streak' = IF call'[c].pc = "idle"
                        THEN Observe(c, u, v, ret')
                        ELSE streak
    \/ \E c \in Insts :
           /\ VoteReadVotes(c)
           /\ streak' = IF call'[c].pc = "idle"
                        THEN Observe(c, call[c].user_id, call[c].vote_id,
                                     ret')
                        ELSE streak
    \/ \E c \in Insts : VoteUnvote(c) /\ UNCHANGED streak
    \/ \E c \in Insts : VoteDeleteAll(c) /\ UNCHANGED streak
    \/ \E c \in Insts : VoteInsert(c) /\ UNCHANGED streak
    \/ \E c \in Insts :
           /\ VoteCommit(c)
           /\ streak' = Observe(c, call[c].user_id, call[c].vote_id,
                                ret')
    \/ \E c \in Insts : Quiet /\ EndUpdate(c) /\ UNCHANGED streak
    \/ \E c \in Insts : EndCommit(c) /\ UNCHANGED streak

SeqSpec == Init /\ [][SeqNext]_vars

\* Calls that overlap are votes of different voters or on different polls, or
\* are not votes.
DvNext ==
    \/ \E c \in Insts, vo \in OptionLists, mv \in MaxVotesArgs :
           CreateInsert(c, vo, mv) /\ UNCHANGED streak
    \/ \E c \in Insts : CreateCommit(c) /\ UNCHANGED streak
    \/ \E c \in Insts, id \in PollIds : Load(c, id) /\ UNCHANGED streak
    \/ \E c \in Insts : InitOptions(c) /\ UNCHANGED streak
    \/ \E c \in Insts : InitRow(c) /\ UNCHANGED streak
    \/ \E c \in Insts, u \in Voters, v \in VoteIds :
           OtherVoters(c, u) /\ VoteIsFinished(c, u, v) /\ UNCHANGED streak
    \/ \E c \in Insts : VoteReadVotes(c) /\ UNCHANGED streak
    \/ \E c \in Insts : VoteUnvote(c) /\ UNCHANGED streak
    \/ \E c \in Insts : VoteDeleteAll(c) /\ UNCHANGED streak
    \/ \E c \in Insts : VoteInsert(c) /\ UNCHANGED streak
    \/ \E c \in Insts : VoteCommit(c) /\ UNCHANGED streak
    \/ \E c \in Insts : EndUpdate(c) /\ UNCHANGED streak
    \/ \E c \in Insts : EndCommit(c) /\ UNCHANGED streak

DvSpec == Init /\ [][DvNext]_vars

\* Poll.create statement by statement, with every kind of argument,
\* interleaved with the statements of every other call; a vote (of one
\* voter) or an end is made when no call is running.
CrNext ==
    \/ \E c \in Insts, vo \in CrOptionLists, mv \in CrMaxVotesArgs :
           CreatePoll(c, vo, mv) /\ UNCHANGED streak
    \/ \E c \in Insts : CreateOption(c) /\ UNCHANGED streak
    \/ \E c \in Insts : CreateCommit(c) /\ UNCHANGED streak
    \/ \E c \in Insts, id \in PollIds : Load(c, id) /\ UNCHANGED streak
    \/ \E c \in Insts : InitOptions(c) /\ UNCHANGED streak
    \/ \E c \in Insts : InitRow(c) /\ UNCHANGED streak
    \/ \E c \in Insts, v \in VoteIds :
           Quiet /\ VoteIsFinished(c, "u1", v) /\ UNCHANGED streak
    \/ \E c \in Insts : VoteReadVotes(c) /\ UNCHANGED streak
    \/ \E c \in Insts : VoteUnvote(c) /\ UNCHANGED streak
    \/ \E c \in Insts : VoteDeleteAll(c) /\ UNCHANGED streak
    \/ \E c \in Insts : VoteInsert(c) /\ UNCHANGED streak
    \/ \E c \in Insts : VoteCommit(c) /\ UNCHANGED streak
    \/ \E c \in Insts : Quiet /\ EndUpdate(c) /\ UNCHANGED streak
    \/ \E c \in Insts : EndCommit(c) /\ UNCHANGED streak

CrSpec == Init /\ [][CrNext]_vars

\* Every statement of every call interleaved, create statement by
\* statement, and every statement able to fail.
FailNext ==
    \/ \E c \in Insts, vo \in OptionLists, mv \in MaxVotesArgs :
           CreatePoll(c, vo, mv) /\ UNCHANGED streak
    \/ \E c \in Insts : CreateOption(c) /\ UNCHANGED streak
    \/ \E c \in Insts : CreateCommit(c) /\ UNCHANGED streak
    \/ \E c \in Insts, id \in PollIds : Load(c, id) /\ UNCHANGED streak
    \/ \E c \in Insts : InitOptions(c) /\ UNCHANGED streak
    \/ \E c \in Insts : InitRow(c) /\ UNCHANGED streak
    \/ \E c \in Insts, u \in Voters, v \in VoteIds :
           VoteIsFinished(c, u, v) /\ UNCHANGED streak
    \/ \E c \in Insts : VoteReadVotes(c) /\ UNCHANGED streak
    \/ \E c \in Insts : VoteUnvote(c) /\ UNCHANGED streak
    \/ \E c \in Insts : VoteDeleteAll(c) /\ UNCHANGED streak
    \/ \E c \in Insts : VoteInsert(c) /\ UNCHANGED streak
    \/ \E c \in Insts : VoteCommit(c) /\ UNCHANGED streak
    \/ \E c \in Insts : EndUpdate(c) /\ UNCHANGED streak
    \/ \E c \in Insts : EndCommit(c) /\ UNCHANGED streak
    \/ \E c \in Insts : CreateSchemaFails(c) /\ UNCHANGED streak
    \/ \E c \in Insts : CreateStatementFails(c) /\ UNCHANGED streak
    \/ \E c \in Insts : CreateClose(c) /\ UNCHANGED streak
    \/ \E c \in Insts : InitFails(c) /\ UNCHANGED streak
    \/ \E c \in Insts : VoteFails(c) /\ UNCHANGED streak
    \/ \E c \in Insts : EndFails(c) /\ UNCHANGED streak

FailSpec == Init /\ [][FailNext]_vars

\* The steps by which a call of connection c goes on once it is made: its
\* next statement, or the timeout of the statement it waits in.
Proceed(c) ==
    \/ CreateCommit(c) /\ UNCHANGED streak
    \/ InitOptions(c) /\ UNCHANGED streak
    \/ InitRow(c) /\ UNCHANGED streak
    \/ VoteReadVotes(c) /\ UNCHANGED streak
    \/ VoteUnvote(c) /\ UNCHANGED streak
    \/ VoteDeleteAll(c) /\ UNCHANGED streak
    \/ VoteInsert(c) /\ UNCHANGED streak
    \/ VoteCommit(c) /\ UNCHANGED streak
    \/ EndExecute(c) /\ UNCHANGED streak
    \/ EndCommit(c) /\ UNCHANGED streak
    \/ BusyTimeout(c) /\ UNCHANGED streak

\* Any number of callers, voting for one voter; a vote or an end can fail
\* and leave its transaction open; a statement that waits for the write
\* lock gets it or times out.  Callers and store are fair: a call that can
\* go on does.
LiveNext ==
    \/ \E c \in Insts, vo \in OptionLists, mv \in MaxVotesArgs :
           CreateInsert(c, vo, mv) /\ UNCHANGED streak
    \/ \E c \in Insts, id \in PollIds : Load(c, id) /\ UNCHANGED streak
    \/ \E c \in Insts, v \in LiveVoteIds :
           VoteIsFinished(c, "u1", v) /\ UNCHANGED streak
    \/ \E c \in Insts : EndCall(c) /\ UNCHANGED streak
    \/ \E c \in Insts : VoteFails(c) /\ UNCHANGED streak
    \/ \E c \in Insts : EndFails(c) /\ UNCHANGED streak
    \/ \E c \in Insts : Proceed(c)

LiveSpec ==
    Init /\ [][LiveNext]_vars /\ \A c \in Insts : WF_vars(Proceed(c))

----------------------------------------------------------------------------
\* Properties.

\* the records of poll id in the ledger V
Ledger(V, id) == SelectVotes(V, {x \in DOMAIN V : x[1] = id})
\* the number of records the voter holds in the committed ledger
Held(id, u) == BagCardinality(votes(db, id, u))
\* connection c is inside Poll.vote, past the checks of lines 187-190
InVote(c) == call[c].pc \in {"votes", "unvote", "delete_all", "insert", "commit"}
\* this step is the last one of the vote call connection c is running
VoteEnds(c) == InVote(c) /\ call'[c].pc = "idle"

\* C1: in every reachable state, under every interleaving of vote calls, the
\* number of committed records a voter holds for a poll is at most the
\* poll's max_votes.
C1_CeilingUnderConcurrency ==
    \A id \in DOMAIN db.Polls, u \in Voters :
        Held(id, u) <= db.Polls[id].max_votes

C3_SingleChoice ==
    /\ [](\A id \in DOMAIN db.Polls, u \in Voters :
              db.Polls[id].max_votes = 1 => Held(id, u) <= 1)
    /\ [][\A c \in Insts :
              (/\ VoteEnds(c)
               /\ poll[c].max_votes = 1
               /\ ~BagIn(call[c].vote_id, votes(db, poll[c].id, call[c].user_id)))
              => (/\ ret' = "ok"
                  /\ votes(db', poll[c].id, call[c].user_id)
                         = SetToBag({call[c].vote_id}))]_vars

\* Three calls were made, a create and two votes of u1 through connection 1,
\* the second for option 1 (a first vote for option 1 would have started a
\* streak; any other second call would have left another ledger, another
\* result or a second Poll): the second vote replaced the first.
C3_Witness ==
    /\ Quiet /\ ncalls = 3
    /\ Len(db.Polls) = 1 /\ db.Polls[1].max_votes = 1 /\ ~db.Polls[1].finished
    /\ ret = "ok" /\ poll[2].id = 0 /\ streak.k = 0
    /\ votes(db, 1, "u1") = SetToBag({1})
    /\ votes(db, 1, "u2") = EmptyBag

\* C4: a committed finished flag is never reset and every connection reads
\* it as true; a vote call made on a poll whose finished flag is committed
\* returns at once without error and changes nothing in the database.
C4_FinishedIsFinal ==
    /\ [](\A c \in Insts :
              (poll[c].max_votes > 0 /\ db.Polls[poll[c].id].finished)
                  => is_finished(View(c), poll[c].id))
    /\ [][\A id \in DOMAIN db.Polls :
              db.Polls[id].finished => db'.Polls[id].finished]_vars
    /\ [][\A c \in Insts, u \in Voters, v \in VoteIds :
              (VoteIsFinished(c, u, v) /\ db.Polls[poll[c].id].finished)
              => (/\ call'[c].pc = "idle" /\ ret' = "finished"
                  /\ db' = db)]_vars

C4_Witness ==
    \E c \in Insts :
        /\ Quiet /\ ret = "finished" /\ poll[c].id # 0
        /\ db.Polls[poll[c].id].finished
        /\ Ledger(db.Votes, poll[c].id) # EmptyBag

\* C5: once the finished flag of a poll is committed, the committed records
\* of that poll never change again.
C5_FrozenAfterEnd ==
    [][\A id \in DOMAIN db.Polls :
           db.Polls[id].finished
               => Ledger(db'.Votes, id) = Ledger(db.Votes, id)]_vars

\* C6: with non-overlapping calls, after k consecutive vote(u, X) calls on
\* an unfinished poll, the first made when u did not hold X and had room,
\* u holds X iff k is odd, no call raised an error and u's other records
\* are those held before the first call.
C6_ToggleParity ==
    (streak.k > 0 /\ ~db.Polls[streak.id].finished) =>
        LET vs == votes(db, streak.id, streak.user_id)
        IN  /\ ~streak.errors
            /\ BagIn(streak.vote_id, vs) <=> (streak.k % 2 = 1)
            /\ [v \in DOMAIN vs \ {streak.vote_id} |-> vs[v]] = streak.others

C6_Witness ==
    /\ streak.k = 3 /\ ~db.Polls[streak.id].finished
    /\ BagIn(streak.vote_id, votes(db, streak.id, streak.user_id))

\* C7 as stated: in every state, a vote call with an index below 0 or not
\* below len(vote_options) raises IndexError and leaves the database
\* unchanged.
C7_IndexErrorAlways ==
    [][\A c \in Insts, u \in Voters, v \in VoteIds :
           (VoteIsFinished(c, u, v)
            /\ (v < 0 \/ v >= Len(poll[c].vote_options)))
           => (ret' = "IndexError" /\ db' = db)]_vars

\* C7 as amended: on a poll that is not finished, a vote call with an index
\* below 0 or not below len(vote_options) raises IndexError, which is not
\* NoMoreVotesError, and leaves the database unchanged; on a finished poll
\* the call returns without error and leaves the database unchanged.
C7_IndexErrorUnlessFinished ==
    [][\A c \in Insts, u \in Voters, v \in VoteIds :
           (VoteIsFinished(c, u, v)
            /\ (v < 0 \/ v >= Len(poll[c].vote_options)))
           => (/\ call'[c].pc = "idle"
               /\ ret' = (IF db.Polls[poll[c].id].finished
                           THEN "finished" ELSE "IndexError")
               /\ db' = db /\ txn' = txn /\ writer' = writer)]_vars

C7_Witness ==
    \E c \in Insts :
        /\ Quiet /\ ret = "IndexError" /\ poll[c].id # 0
        /\ ~db.Polls[poll[c].id].finished
        /\ Ledger(db.Votes, poll[c].id) # EmptyBag

\* the sum of count_votes over the option indices 0..n-1
RECURSIVE SumCounts(_, _, _)
SumCounts(D, id, n) ==
    IF n = 0 THEN 0 ELSE count_votes(D, id, n - 1) + SumCounts(D, id, n - 1)

\* C8: in the committed database and in the writing connection's view of
\* it, for every poll, num_votes is the sum of count_votes over the valid
\* indices, num_voters is the number of voters holding a record and is at
\* most num_votes, with equality iff every voter holding a record holds
\* exactly one.
TallyConsistent(D, id) ==
    LET n == Cardinality({x \in D.VoteOptions : x[1] = id})
        holding == {u \in Voters : BagCardinality(votes(D, id, u)) >= 1}
    IN  /\ num_votes(D, id) = SumCounts(D, id, n)
        /\ num_voters(D, id) = Cardinality(holding)
        /\ num_voters(D, id) <= num_votes(D, id)
        /\ (num_voters(D, id) = num_votes(D, id))
               <=> (\A u \in holding : BagCardinality(votes(D, id, u)) = 1)

C8_TallyConsistency ==
    \A id \in DOMAIN db.Polls :
        TallyConsistent(db, id) /\ (id \in DOMAIN txn.Polls => TallyConsistent(txn, id))

C8_Witness ==
    \E id \in DOMAIN db.Polls :
        num_votes(db, id) = 3 /\ num_voters(db, id) = 2

\* C9: in every reachable state the committed ledger and the writing
\* connection's view of it hold each (poll_id, voter, vote) triple at most
\* once, and an INSERT of a triple that is already present lets the call go
\* on to its commit with exactly one such record.
C9_SingleVote ==
    /\ [](\A D \in {db, txn} : \A x \in DOMAIN D.Votes : D.Votes[x] = 1)
    /\ [][\A c \in Insts :
              (VoteInsert(c)
               /\ BagIn(<<poll[c].id, call[c].user_id, call[c].vote_id>>,
                        WriteBase(c).Votes))
              => (/\ call'[c].pc = "commit"
                  /\ CopiesIn(<<poll[c].id, call[c].user_id, call[c].vote_id>>,
                              txn'.Votes) = 1)]_vars

\* Connection c has executed its INSERT of a triple that another connection
\* had committed after c read the voter's votes.
C9_Witness ==
    \E c \in Insts :
        /\ call[c].pc = "commit" /\ writer = c
        /\ ~BagIn(call[c].vote_id, call[c].votes)
        /\ BagIn(<<poll[c].id, call[c].user_id, call[c].vote_id>>, db.Votes)
        /\ CopiesIn(<<poll[c].id, call[c].user_id, call[c].vote_id>>, txn.Votes) = 1

\* two vote calls of different voters for valid options of poll id, run one
\* after the other on the ledger of D, leave the same ledger in both orders
Commute(D, id) ==
    \A pair \in {p \in SUBSET Voters : Cardinality(p) = 2} :
        LET u == CHOOSE a \in pair : TRUE
            w == CHOOSE b \in pair : b # u
            n == Cardinality({o \in D.VoteOptions : o[1] = id})
            mv == D.Polls[id].max_votes
            then(W, a, b) == VoteAlone(W, id, a, b, mv).Votes
        IN  \A x \in 0..(n - 1), y \in 0..(n - 1) :
                then(then(D.Votes, u, x), w, y)
                    = then(then(D.Votes, w, y), u, x)

Replacing(c) ==
    /\ call[c].pc \in {"delete_all", "insert", "commit"}
    /\ poll[c].max_votes = 1
    /\ call[c].votes # EmptyBag
    /\ ~BagIn(call[c].vote_id, call[c].votes)

\* C11: every step of a vote call that replaces the voter's choice on a
\* single-choice poll leaves what each other connection reads as the
\* voter's votes either as it was before the step or equal to the new
\* choice alone: the state with the old choice deleted and the new one not
\* yet inserted is read by no other connection.
C11_AtomicReplace ==
    [][\A c \in Insts :
           (Replacing(c) /\ call'[c] # call[c])
           => \A d \in Insts \ {c} :
                  votes(View(d)', poll[c].id, call[c].user_id)
                      \in {votes(View(d), poll[c].id, call[c].user_id),
                           SetToBag({call[c].vote_id})}]_vars

\* Connection c has deleted the old choice and not yet inserted the new one,
\* while connection d holds a Poll of the same poll and reads the old choice.
C11_Witness ==
    \E c \in Insts, d \in Insts :
        /\ c # d /\ Replacing(c) /\ call[c].pc = "insert" /\ writer = c
        /\ Ready(d) /\ poll[d].id = poll[c].id
        /\ votes(txn, poll[c].id, call[c].user_id) = EmptyBag
        /\ votes(View(d), poll[c].id, call[c].user_id) = call[c].votes

\* the option rows of poll id in the database D
OptionRows(D, id) == {x \in D.VoteOptions : x[1] = id}
\* max_votes brought into the range 1..n
Clamped(max_votes, n) ==
    IF max_votes < 1 THEN 1 ELSE IF max_votes > n THEN n ELSE max_votes

\* C12: for every create call, with an empty or a non-empty option list and
\* a max_votes below, inside or above the range: the options kept for
\* insertion are the list supplied, or Yes and No when it is empty, and the
\* poll row holds finished = false and max_votes brought into 1..len(
\* vote_options); the poll row is not altered while the options are
\* inserted; the commit publishes that row, option i under number i and no
\* other option, and no record; every committed poll has
\* 1 <= max_votes <= number of options.
C12_CreateStores ==
    /\ [][\A c \in Insts, vo \in CrOptionLists, mv \in CrMaxVotesArgs :
              (call'[c].pc = "create_options" /\ CreatePoll(c, vo, mv))
              => LET opts == IF Len(vo) = 0 THEN <<"Yes", "No">> ELSE vo
                     id == call'[c].id
                 IN  /\ call'[c].vote_options = opts
                     /\ id = Len(txn'.Polls) /\ id \notin DOMAIN db.Polls
                     /\ txn'.Polls[id] =
                            [finished |-> FALSE,
                             max_votes |-> Clamped(mv, Len(opts))]]_vars
    /\ [][\A c \in Insts :
              (call[c].pc \in {"create_options", "create_commit"}
               /\ call'[c].pc \in {"create_options", "create_commit"})
              => txn'.Polls[call[c].id] = txn.Polls[call[c].id]]_vars
    /\ [][\A c \in Insts :
              CreateCommit(c)
              => LET id == call[c].id
                     opts == call[c].vote_options
                 IN  /\ OptionRows(db', id) =
                            {<<id, i - 1, opts[i]>> : i \in 1..Len(opts)}
                     /\ db'.Polls[id] = txn.Polls[id]
                     /\ ~db'.Polls[id].finished
                     /\ Ledger(db'.Votes, id) = EmptyBag]_vars
    /\ [](\A id \in DOMAIN db.Polls :
              /\ db.Polls[id].max_votes >= 1
              /\ db.Polls[id].max_votes <= Cardinality(OptionRows(db, id)))

\* Poll 1 is finished and has a record; poll 2 was created after it from an
\* empty option list: it is unfinished, has the options Yes and No and no
\* record.
C12_Witness ==
    /\ Len(db.Polls) = 2 /\ Quiet
    /\ db.Polls[1].finished /\ Ledger(db.Votes, 1) # EmptyBag
    /\ OptionNames(db, 2) = <<"Yes", "No">>
    /\ ~db.Polls[2].finished /\ Ledger(db.Votes, 2) = EmptyBag

\* connection d is inside create and has not committed poll id
Creating(d, id) ==
    call[d].id = id /\ call[d].pc \in {"create_options", "create_commit"}

C14_CreateFailsCleanly ==
    /\ [][\A c \in Insts :
              (CreateSchemaFails(c) \/ CreateStatementFails(c))
              => ret' = "InvalidPollError"]_vars
    /\ [][\A c \in Insts :
              call[c].pc = "create_raised"
              => /\ call[c].id \notin DOMAIN db'.Polls
                 /\ OptionRows(db', call[c].id) = {}]_vars

\* C15: the UPDATE of an end call changes nothing committed and nothing of
\* any Poll object; its commit raises no error and leaves the records, the
\* options, the number of polls, every other poll row and the max_votes of
\* its own poll row as they were, the finished flag of its own poll being
\* true afterwards; on a poll that is already finished the commit leaves the
\* database as it was.
C15_EndFrame ==
    /\ [][\A c \in Insts :
              (call[c].pc = "idle" /\ EndUpdate(c))
              => (db' = db /\ poll' = poll)]_vars
    /\ [][\A c \in Insts :
              (call[c].pc = "end_commit" /\ EndCommit(c))
              => LET id == poll[c].id
                 IN  /\ ret' = "ok" /\ poll' = poll
                     /\ db'.Votes = db.Votes
                     /\ db'.VoteOptions = db.VoteOptions
                     /\ DOMAIN db'.Polls = DOMAIN db.Polls
                     /\ \A p \in DOMAIN db.Polls :
                            /\ db'.Polls[p].max_votes = db.Polls[p].max_votes
                            /\ db'.Polls[p].finished
                                   = (p = id \/ db.Polls[p].finished)
                     /\ db.Polls[id].finished => db' = db]_vars

\* A second end is about to commit on a poll that is finished and has a
\* record.
C15_Witness ==
    \E c \in Insts :
        /\ call[c].pc = "end_commit" /\ writer = c
        /\ db.Polls[call[c].id].finished
        /\ Ledger(db.Votes, call[c].id) # EmptyBag

\* C16: in the committed database and in the writing connection's view of
\* it, every record of a poll has a vote between 0 and the number of the
\* poll's options minus one, and count_votes is 0 for -1, for the number of
\* options and for the index after it.
C16_VotesInRange ==
    \A D \in {db, txn} : \A id \in DOMAIN D.Polls :
        LET n == Cardinality(OptionRows(D, id))
        IN  /\ \A x \in DOMAIN Ledger(D.Votes, id) : x[3] \in 0..(n - 1)
            /\ \A i \in {-1, n, n + 1} : count_votes(D, id, i) = 0

\* Every option of a poll has a record, after a vote call with an invalid
\* index raised IndexError.
C16_Witness ==
    \E id \in DOMAIN db.Polls :
        /\ ret = "IndexError" /\ Quiet
        /\ count_votes(db, id, 0) >= 1
        /\ count_votes(db, id, Cardinality(OptionRows(db, id)) - 1) >= 1

\* C17: a vote call that reads the voter as holding vote_id takes the
\* unvote branch, also when the voter holds max_votes options, and its
\* commit raises no error and removes that record and nothing else from the
\* committed ledger; a vote call that reads the voter with room and without
\* vote_id ends without error with that record committed; and in a poll
\* with max_votes > 1 a committed record leaves the committed ledger only at
\* the commit of a vote call of its voter for its option on its poll.
C17_UnvoteAlwaysSucceeds ==
    /\ [][\A c \in Insts :
              (call[c].pc = "votes" /\ VoteReadVotes(c)
               /\ BagIn(call[c].vote_id,
                        votes(View(c), poll[c].id, call[c].user_id)))
              => call'[c].pc = "unvote"]_vars
    /\ [][\A c \in Insts :
              (call[c].pc = "commit" /\ VoteCommit(c)
               /\ BagIn(call[c].vote_id, call[c].votes))
              => /\ ret' = "ok"
                 /\ db'.Votes = DeleteVotes(db.Votes,
                        {<<poll[c].id, call[c].user_id, call[c].vote_id>>})]_vars
    /\ [][\A c \in Insts :
              (call[c].pc = "commit" /\ VoteCommit(c)
               /\ ~BagIn(call[c].vote_id, call[c].votes)
               /\ BagCardinality(call[c].votes) < poll[c].max_votes)
              => /\ ret' = "ok"
                 /\ BagIn(<<poll[c].id, call[c].user_id, call[c].vote_id>>,
                          db'.Votes)]_vars
    /\ [][\A x \in DOMAIN db.Votes :
              (db.Polls[x[1]].max_votes > 1 /\ ~BagIn(x, db'.Votes))
              => \E c \in Insts :
                     /\ call[c].pc = "commit" /\ VoteCommit(c)
                     /\ x = <<poll[c].id, call[c].user_id, call[c].vote_id>>]_vars

\* A vote for an option the voter holds, read while the voter holds max_votes
\* = 2 options, has executed its DELETE and is about to commit.
C17_Witness ==
    \E c \in Insts :
        /\ call[c].pc = "commit" /\ writer = c
        /\ poll[c].max_votes = 2
        /\ BagCardinality(call[c].votes) = 2
        /\ BagIn(call[c].vote_id, call[c].votes)
        /\ BagCardinality(votes(txn, poll[c].id, call[c].user_id)) = 1

\* the records a vote call deletes, given the votes it read (lines 195-207)
OwnDeletions(c) ==
    {x \in DOMAIN db.Votes :
        /\ x[1] = poll[c].id /\ x[2] = call[c].user_id
        /\ IF BagIn(call[c].vote_id, call[c].votes)
           THEN x[3] = call[c].vote_id
           ELSE /\ BagCardinality(call[c].votes) >= poll[c].max_votes
                /\ poll[c].max_votes = 1}

\* C18: a vote call that a store failure ends raises the store's error and
\* commits nothing, and what it deleted is not committed later either: the
\* commit of an end call leaves the committed ledger as it was, and the
\* commit of a vote call removes from the committed ledger only records
\* that this call deleted.
C18_FailedVoteCommitsNothing ==
    /\ [][\A c \in Insts :
              (InVote(c) /\ VoteFails(c))
              => (ret' = "sqlite3.Error" /\ db' = db)]_vars
    /\ [][\A c \in Insts :
              (call[c].pc = "end_commit" /\ EndCommit(c))
              => db'.Votes = db.Votes]_vars
    /\ [][\A c \in Insts :
              (call[c].pc = "commit" /\ VoteCommit(c))
              => \A x \in DOMAIN db.Votes :
                     ~BagIn(x, db'.Votes) => x \in OwnDeletions(c)]_vars

\* connection c runs a vote or an end call
InVoteOrEnd(c) ==
    call[c].pc \in {"votes", "unvote", "delete_all", "insert", "commit",
                    "end_update", "end_commit"}
\* the statement of connection c waits for the write lock
Waits(c) ==
    call[c].pc \in {"unvote", "delete_all", "insert", "end_update"}
        /\ ~CanWrite(c)

\* C19: with fair callers and a fair store, every vote or end call that is
\* made ends, by returning or raising; and in every reachable state every
\* running call has a step it can take, so that no calls wait for each
\* other.
C19_CallsComplete ==
    /\ \A c \in Insts : InVoteOrEnd(c) ~> (call[c].pc = "idle")
    /\ [](\A c \in Insts : call[c].pc # "idle" => ENABLED Proceed(c))

\* A statement waits for the write lock that an idle connection holds: a
\* call of that connection failed and left its transaction open.
C19_Witness ==
    \E c \in Insts, d \in Insts :
        /\ Waits(c) /\ writer = d /\ call[d].pc = "idle"

====
